---- MODULE Spec2Model ----
(***************************************************************************)
(* Model of google_drive_upload.py: destination resolution                 *)
(* (get_destination_info), ordered folder creation                         *)
(* (create_missing_drive_folders) and the upload orchestration (main)      *)
(* against a Drive-like remote store.                                      *)
(*                                                                         *)
(* Text is modelled as a sequence of one-character strings, so that        *)
(* splitting, slicing, escaping and number parsing are computed the way    *)
(* the Python code computes them.                                          *)
(***************************************************************************)
EXTENDS Integers, Sequences, FiniteSets, TLC

VARIABLES
    remote,            \* the entries of the remote store, in listing order
    nextId,            \* the number of the next id the store hands out
    calls,             \* the requests issued so far, in order
    run,               \* the local state of each run of main
    root_folder_info   \* the module-level dictionary ROOT_FOLDER_INFO

vars == <<remote, nextId, calls, run, root_folder_info>>

(***************************************************************************)
(* Bounds of the model.                                                    *)
(***************************************************************************)
\* largest number of files placed in the target folder of the initial remote
MaxFiles == 2

\* longest destination path of the path-resolution specification
MaxPathLen == 4

\* largest number of pages the store cuts one listing into
MaxPages == 3

\* largest number of files on one page
MaxPageSize == 2

(***************************************************************************)
(* Text helpers (Python str operations used by the program).               *)
(***************************************************************************)
Digits == <<"0", "1", "2", "3", "4", "5", "6", "7", "8", "9">>

\* s[a:b] with 0-based, already clamped, non-negative bounds
Slice(s, a, b) == IF b <= a THEN <<>> ELSE SubSeq(s, a + 1, b)

\* s[a:-1] as Python evaluates it (a >= 0)
SliceToLast(s, a) == Slice(s, IF a > Len(s) THEN Len(s) ELSE a, Len(s) - 1)

\* s.rfind(c) + 1: the 1-based position of the last c, 0 when absent
LastIndexOf(s, c) ==
    IF \E i \in 1..Len(s) : s[i] = c
    THEN CHOOSE i \in 1..Len(s) : s[i] = c /\ \A j \in (i + 1)..Len(s) : s[j] # c
    ELSE 0

RECURSIVE RStrip(_, _)
RStrip(s, c) ==
    IF s # <<>> /\ s[Len(s)] = c THEN RStrip(SubSeq(s, 1, Len(s) - 1), c) ELSE s

\* s.split(c)
RECURSIVE SplitOn(_, _)
SplitOn(s, c) ==
    IF \E i \in 1..Len(s) : s[i] = c
    THEN LET i == CHOOSE k \in 1..Len(s) : s[k] = c /\ \A j \in 1..(k - 1) : s[j] # c
         IN  <<SubSeq(s, 1, i - 1)>> \o SplitOn(SubSeq(s, i + 1, Len(s)), c)
    ELSE <<s>>

\* c.join(parts)
RECURSIVE Join(_, _)
Join(parts, c) ==
    IF parts = <<>> THEN <<>>
    ELSE IF Len(parts) = 1 THEN parts[1]
    ELSE parts[1] \o <<c>> \o Join(Tail(parts), c)

\* str.isdigit, restricted to the ASCII digits of the model's alphabet
IsDigit(s) == s # <<>> /\ \A i \in 1..Len(s) : \E d \in 1..10 : Digits[d] = s[i]

DigitValue(c) == (CHOOSE d \in 1..10 : Digits[d] = c) - 1

\* int(s) for a string of decimal digits
RECURSIVE ToInt(_)
ToInt(s) ==
    IF s = <<>> THEN 0
    ELSE 10 * ToInt(SubSeq(s, 1, Len(s) - 1)) + DigitValue(s[Len(s)])

\* str(n) for n >= 0
RECURSIVE ToStr(_)
ToStr(n) ==
    IF n < 10 THEN <<Digits[n + 1]>>
    ELSE ToStr(n \div 10) \o <<Digits[(n % 10) + 1]>>

\* s.replace(c, r) for a one-character c and a replacement string r
RECURSIVE Replace(_, _, _)
Replace(s, c, r) ==
    IF s = <<>> THEN <<>>
    ELSE (IF Head(s) = c THEN r ELSE <<Head(s)>>) \o Replace(Tail(s), c, r)

\* t occurs in s as a contiguous substring
Contains(s, t) ==
    \E i \in 0..(Len(s) - Len(t)) : SubSeq(s, i + 1, i + Len(t)) = t

\* max(list) of a non-empty sequence of integers
MaxOf(ns) == CHOOSE m \in {ns[i] : i \in 1..Len(ns)} : \A i \in 1..Len(ns) : ns[i] <= m

(***************************************************************************)
(* os.path functions (posix flavour) the program calls.                    *)
(***************************************************************************)
\* os.path.split(p) -> [head, tail]
PathSplit(p) ==
    LET i    == LastIndexOf(p, "/")
        head == SubSeq(p, 1, i)
        tail == SubSeq(p, i + 1, Len(p))
    IN  [head |-> IF head # <<>> /\ RStrip(head, "/") # <<>>
                  THEN RStrip(head, "/") ELSE head,
         tail |-> tail]

\* os.path.basename(p)
BaseName(p) == SubSeq(p, LastIndexOf(p, "/") + 1, Len(p))

\* the component stack of os.path.normpath
RECURSIVE NormComps(_, _, _)
NormComps(comps, acc, slashes) ==
    IF comps = <<>> THEN acc
    ELSE LET comp == Head(comps) IN
         IF comp = <<>> \/ comp = <<".">>
         THEN NormComps(Tail(comps), acc, slashes)
         ELSE IF comp # <<".", ".">>
                 \/ (slashes = 0 /\ acc = <<>>)
                 \/ (acc # <<>> /\ acc[Len(acc)] = <<".", ".">>)
         THEN NormComps(Tail(comps), Append(acc, comp), slashes)
         ELSE IF acc # <<>>
         THEN NormComps(Tail(comps), SubSeq(acc, 1, Len(acc) - 1), slashes)
         ELSE NormComps(Tail(comps), acc, slashes)

\* os.path.normpath(path)
NormPath(path) ==
    IF path = <<>> THEN <<".">>
    ELSE LET slashes == IF path[1] # "/" THEN 0
                        ELSE IF Len(path) >= 2 /\ path[2] = "/"
                                /\ ~(Len(path) >= 3 /\ path[3] = "/")
                        THEN 2 ELSE 1
             joined  == Join(NormComps(SplitOn(path, "/"), <<>>, slashes), "/")
             res     == [i \in 1..slashes |-> "/"] \o joined
         IN  IF res = <<>> THEN <<".">> ELSE res

\* os.path.splitext(p) -> [root, ext]
SplitExt(p) ==
    LET sepIndex == LastIndexOf(p, "/")
        dotIndex == LastIndexOf(p, ".")
    IN  IF dotIndex > sepIndex
           /\ \E k \in (sepIndex + 1)..(dotIndex - 1) : p[k] # "."
        THEN [root |-> SubSeq(p, 1, dotIndex - 1), ext |-> SubSeq(p, dotIndex, Len(p))]
        ELSE [root |-> p, ext |-> <<>>]

(***************************************************************************)
(* Program constants.                                                      *)
(***************************************************************************)
FOLDER_MIME_TYPE == "application/vnd.google-apps.folder"

\* the MIME type of an uploaded (non-folder) file
FILE_MIME_TYPE == "application/octet-stream"

DRIVE_ROOT_FOLDER_NAME == <<"r", "o", "o", "t">>

ROOT_FOLDER_INFO ==
    [name |-> DRIVE_ROOT_FOLDER_NAME, id |-> DRIVE_ROOT_FOLDER_NAME,
     parent |-> DRIVE_ROOT_FOLDER_NAME, type |-> FOLDER_MIME_TYPE]

\* drive_id = False: the user's own drive, no shared drive named
NoDrive == <<>>

\* the value of a variable that has not been assigned a folder descriptor
NoFolder == [name |-> <<>>, id |-> <<>>, parent |-> <<>>, type |-> ""]

(***************************************************************************)
(* escape_google_api_query_string.  In Python source "\'" denotes the      *)
(* one-character string "'", so the second replace maps a quote to itself. *)
(***************************************************************************)
escape_google_api_query_string(string) ==
    Replace(Replace(string, "\\", <<"\\", "\\">>), "'", <<"'">>)

(***************************************************************************)
(* The remote store.  remote is the sequence of entries in listing order.  *)
(***************************************************************************)
\* How the store reads a quoted string literal of a query: a backslash
\* escapes the next character, a bare quote ends the literal too early.
RECURSIVE QueryLiteral(_)
QueryLiteral(s) ==
    IF s = <<>> THEN [ok |-> TRUE, text |-> <<>>]
    ELSE IF Head(s) = "'" THEN [ok |-> FALSE, text |-> <<>>]
    ELSE IF Head(s) = "\\"
    THEN IF Len(s) < 2 THEN [ok |-> FALSE, text |-> <<>>]
         ELSE LET rest == QueryLiteral(SubSeq(s, 3, Len(s)))
              IN  [ok |-> rest.ok, text |-> <<s[2]>> \o rest.text]
    ELSE LET rest == QueryLiteral(Tail(s))
         IN  [ok |-> rest.ok, text |-> <<Head(s)>> \o rest.text]

\* the entries whose position is in idx, in listing order
RECURSIVE SelectEntries(_, _)
SelectEntries(entries, idx) ==
    IF idx = {} THEN <<>>
    ELSE LET i == CHOOSE k \in idx : \A j \in idx : k <= j
         IN  <<entries[i]>> \o SelectEntries(entries, idx \ {i})

\* what list_drive_files returns for the folder lookup of get_destination_info
FoundFolders(rem, parent, literal) ==
    SelectEntries(rem, {i \in 1..Len(rem) :
                           /\ rem[i].mimeType = FOLDER_MIME_TYPE
                           /\ rem[i].parent = parent
                           /\ rem[i].name = QueryLiteral(literal).text
                           /\ ~rem[i].trashed})

\* what list_drive_files returns for the collision query of get_destination_info
FoundFiles(rem, parent, literal) ==
    SelectEntries(rem, {i \in 1..Len(rem) :
                           /\ rem[i].parent = parent
                           /\ Contains(rem[i].name, QueryLiteral(literal).text)
                           /\ ~rem[i].trashed})

\* the id the store gives to its n-th new entry
NewId(n) == <<"n">> \o ToStr(n)

Entry(id, name, parent, mimeType, trashed) ==
    [id |-> id, name |-> name, parent |-> parent, mimeType |-> mimeType,
     trashed |-> trashed]

Call(p, op, parent, name, ok, id) ==
    [proc |-> p, op |-> op, parent |-> parent, name |-> name, ok |-> ok, id |-> id]

(***************************************************************************)
(* get_destination_info: the pure parts.                                   *)
(***************************************************************************)
\* a root descriptor that is the shared one whatever the drive
local_root_always_shared(drive_id) == <<root_folder_info>>

local_root_folder_info(drive_id) ==
    IF drive_id # NoDrive
    THEN <<[name |-> DRIVE_ROOT_FOLDER_NAME, id |-> drive_id,
            parent |-> DRIVE_ROOT_FOLDER_NAME, type |-> FOLDER_MIME_TYPE]>>
    ELSE <<root_folder_info>>

\* parent_folders as it stands when the lookup loop starts
parent_folders(destination_path) ==
    IF destination_path # <<"/">>
    THEN LET split == SplitOn(NormPath(PathSplit(destination_path).head), "/")
         IN  IF split # <<>> /\ (split[1] = <<>> \/ split[1] = <<".">>)
             THEN Tail(split) ELSE split
    ELSE <<>>

\* a leaf rule that keeps an empty trailing component
destination_file_name_tail(source_file_path, destination_path) ==
    IF destination_path # <<"/">> THEN PathSplit(destination_path).tail
    ELSE BaseName(source_file_path)

\* destination_file_name as it stands when the lookup loop starts
destination_file_name(source_file_path, destination_path) ==
    IF destination_path # <<"/">> /\ PathSplit(destination_path).tail # <<>>
    THEN PathSplit(destination_path).tail
    ELSE BaseName(source_file_path)

\* the text the renaming loop tests with isdigit for one found file
value(name, file_name_base) ==
    SliceToLast(SplitExt(name).root, Len(file_name_base) + 2)

RECURSIVE numbers_list(_, _)
numbers_list(found_files, file_name_base) ==
    IF found_files = <<>> THEN <<>>
    ELSE LET v == value(Head(found_files).name, file_name_base)
         IN  (IF IsDigit(v) THEN <<ToInt(v)>> ELSE <<>>)
             \o numbers_list(Tail(found_files), file_name_base)

\* max() of an empty numbers_list raises ValueError
RenameRaises(found_files, file_name_base) ==
    Len(found_files) > 1 /\ numbers_list(found_files, file_name_base) = <<>>

\* a renaming that numbers a single found file 2
number_from_two(found_files, file_name_base) ==
    IF Len(found_files) > 1
    THEN MaxOf(numbers_list(found_files, file_name_base)) + 1
    ELSE 2

number(found_files, file_name_base) ==
    IF Len(found_files) > 1
    THEN MaxOf(numbers_list(found_files, file_name_base)) + 1
    ELSE 1

\* a leaf that is used whatever the collision query found
final_file_name_unchecked(found_files, file_name) == file_name

\* a renaming that numbers the file even when nothing was found
final_file_name_always(found_files, file_name) ==
    SplitExt(file_name).root \o <<" ", "(">>
    \o ToStr(number(found_files, SplitExt(file_name).root))
    \o <<")">> \o SplitExt(file_name).ext

\* the file name get_destination_info returns when all folders are present
final_file_name(found_files, file_name) ==
    LET file_name_base == SplitExt(file_name).root
        file_extension == SplitExt(file_name).ext
    IN  IF found_files = <<>> THEN file_name
        ELSE file_name_base \o <<" ", "(">>
             \o ToStr(number(found_files, file_name_base))
             \o <<")">> \o file_extension

(***************************************************************************)
(* Inputs: the remote stores and command lines the runs start from.        *)
(***************************************************************************)
RootId(drive_id) == local_root_folder_info(drive_id)[1].id

Folder(n, name, parent) == Entry(<<"f">> \o ToStr(n), name, parent, FOLDER_MIME_TYPE, FALSE)

Fid(n) == <<"f">> \o ToStr(n)

\* folder trees under the root R, as [tree, targets]: targets are the folders
\* that receive the files of the initial remote
Trees(R) ==
    { [tree |-> <<>>, targets |-> {R}],
      [tree |-> <<Folder(1, <<"A">>, R)>>, targets |-> {R, Fid(1)}],
      [tree |-> <<Folder(1, <<"A">>, R), Folder(2, <<"B">>, Fid(1))>>,
       targets |-> {Fid(1), Fid(2)}],
      [tree |-> <<Folder(1, <<"A">>, R), Folder(2, <<"B">>, Fid(1)),
                  Folder(3, <<"C">>, Fid(2))>>,
       targets |-> {Fid(3)}],
      \* two folders of one name: the first returned has no child B
      [tree |-> <<Folder(1, <<"A">>, R), Folder(2, <<"A">>, R),
                  Folder(3, <<"B">>, Fid(2))>>,
       targets |-> {Fid(1)}],
      \* a trashed folder A before a live one
      [tree |-> <<Entry(Fid(1), <<"A">>, R, FOLDER_MIME_TYPE, TRUE),
                  Folder(2, <<"A">>, R), Folder(3, <<"B">>, Fid(2))>>,
       targets |-> {Fid(3)}],
      \* a plain file named A, and a folder B at the top level
      [tree |-> <<Entry(Fid(1), <<"A">>, R, FILE_MIME_TYPE, FALSE),
                  Folder(2, <<"B">>, R)>>,
       targets |-> {R}] }

\* names (and trashed flags) of the files an initial remote may hold
FileUniverse ==
    << [name |-> <<"r", ".", "p">>, trashed |-> FALSE],
       [name |-> <<"r", " ", "(", "1", ")", ".", "p">>, trashed |-> FALSE],
       [name |-> <<"r", " ", "(", "2", ")", ".", "p">>, trashed |-> FALSE],
       [name |-> <<"r", " ", "(", "1", "0", ")", ".", "p">>, trashed |-> FALSE],
       [name |-> <<"r", " ", "(", "3", ")", ".", "p">>, trashed |-> TRUE],
       [name |-> <<"r", "_", "_", "7", "_", ".", "p">>, trashed |-> FALSE],
       [name |-> <<"x", "r", ".", "p">>, trashed |-> FALSE],
       [name |-> <<"r", " ", "(", "2", ")">>, trashed |-> FALSE],
       [name |-> <<"q", ".", "p">>, trashed |-> FALSE] >>

RECURSIVE FileEntries(_, _)
FileEntries(idx, target) ==
    IF idx = {} THEN <<>>
    ELSE LET i == CHOOSE k \in idx : \A j \in idx : k <= j
         IN  <<Entry(<<"x">> \o ToStr(i), FileUniverse[i].name, target,
                     FILE_MIME_TYPE, FileUniverse[i].trashed)>>
             \o FileEntries(idx \ {i}, target)

DestinationPaths ==
    { <<"/">>,
      <<"/", "A", "/", "B", "/">>,
      <<"/", "A", "/", "B", "/", "r", ".", "p">>,
      <<"/", "A", "/", ".", "/", "/", "r", ".", "p">>,
      <<"A", "/", "B", "/", "C", "/", "r", ".", "p">>,
      <<"B", "/", "A", "/", "r", ".", "p">>,
      <<"r", ".", "p">>,
      <<"/", "r", ".", "p">>,
      <<"/", "A", "'", "/", "r", ".", "p">> }

SourceFilePaths == { <<"s", "/", "q", ".", "p">> }

DriveIds == { NoDrive, <<"d", "1">> }

InitialRemotes(drive_id) ==
    UNION { { t.tree \o FileEntries(idx, target) :
                idx \in {S \in SUBSET (1..Len(FileUniverse)) : Cardinality(S) <= MaxFiles},
                target \in t.targets } :
            t \in Trees(RootId(drive_id)) }

\* the runs of the program the model follows
Runs == {1}

\* what the command line and the machine give one run of main
\*   unattended_flag  --unattended was given
\*   isatty           sys.stdout.isatty()
\*   source_kind      what --source-file names: "file", "dir" or "absent"
\*   credentials      "valid" (a usable token), "login" (the user has to
\*                    authenticate) or "missing" (no credentials file)
\*   drive_name       --drive-name
\*   drives           the shared drives the store lists for drive_name
\*   typed            what the user types at a prompt
MY_DRIVE == <<"M", "y", " ", "D", "r", "i", "v", "e">>

OrdinaryCommand(drive_name, drives) ==
    [unattended_flag |-> FALSE, isatty |-> TRUE, source_kind |-> "file",
     credentials |-> "valid", drive_name |-> drive_name, drives |-> drives,
     typed |-> <<"0">>]

\* the drive names given on the command line, with what the store lists for them
DriveCases ==
    { [drive_name |-> MY_DRIVE, drives |-> <<>>],
      [drive_name |-> <<"T">>, drives |-> <<>>],
      [drive_name |-> <<"T">>, drives |-> << <<"d", "1">> >>],
      [drive_name |-> <<"T">>, drives |-> << <<"d", "1">>, <<"d", "2">> >>] }

\* command lines of runs that get as far as get_destination_info
OrdinaryCommands ==
    { OrdinaryCommand(MY_DRIVE, <<>>), OrdinaryCommand(<<"T">>, << <<"d", "1">> >>) }

Commands ==
    { [unattended_flag |-> u, isatty |-> t, source_kind |-> k, credentials |-> c,
       drive_name |-> d.drive_name, drives |-> d.drives, typed |-> y] :
        u \in BOOLEAN, t \in BOOLEAN, k \in {"file", "dir", "absent"},
        c \in {"valid", "login", "missing"}, d \in DriveCases,
        y \in { <<"0">>, <<"1">>, <<"x">> } }

\* the drive id main passes on for a command
DriveOf(command) ==
    IF command.drive_name = MY_DRIVE \/ command.drives = <<>> THEN NoDrive
    ELSE command.drives[1]

\* the remotes start-up failures are explored on
FewRemotes(drive_id) ==
    { t.tree : t \in Trees(RootId(drive_id)) }

FewDestinationPaths == { <<"/">>, <<"/", "A", "/", "B", "/", "r", ".", "p">> }

\* the local state of one run of main, before get_destination_info is called
StartOfRun(drive_id, source_file_path, destination_path) ==
    [pc |-> "start", error |-> "", at |-> "", exit_code |-> -1,
     command |-> IF drive_id = NoDrive THEN OrdinaryCommand(MY_DRIVE, <<>>)
                 ELSE OrdinaryCommand(<<"T">>, <<drive_id>>),
     unattended |-> FALSE,
     prompts |-> 0,
     first |-> [called |-> FALSE, folders_present |-> <<>>,
                folders_missing |-> <<>>, destination_file_name |-> <<>>],
     drive_id |-> drive_id,
     source_file_path |-> source_file_path,
     destination_path |-> destination_path,
     parent_folders |-> <<>>,
     destination_file_name |-> <<>>,
     folders_present |-> <<>>,
     folders_missing |-> <<>>,
     parent |-> <<>>,
     parent_folder |-> NoFolder,
     result |-> <<>>]

\* the local state of one run of main when main is entered
StartOfMain(command, source_file_path, destination_path) ==
    [StartOfRun(NoDrive, source_file_path, destination_path)
        EXCEPT !.pc = "main", !.command = command]

Init ==
    /\ root_folder_info = ROOT_FOLDER_INFO
    /\ nextId = 1
    /\ calls = <<>>
    /\ \E source_file_path \in SourceFilePaths :
        \/ \E command \in OrdinaryCommands, destination_path \in DestinationPaths :
              /\ remote \in InitialRemotes(DriveOf(command))
              /\ run = [p \in Runs |->
                          StartOfMain(command, source_file_path, destination_path)]
        \/ \E command \in Commands, destination_path \in FewDestinationPaths :
              /\ remote \in FewRemotes(DriveOf(command))
              /\ run = [p \in Runs |->
                          StartOfMain(command, source_file_path, destination_path)]

(***************************************************************************)
(* The steps of one run p of main.  Every call of the remote store is one  *)
(* step; the local code that follows it up to the next call belongs to it. *)
(***************************************************************************)
\* an exception nobody catches ends the process with a traceback and status 1
Raise(r, error) ==
    [r EXCEPT !.pc = "crashed", !.error = error, !.at = r.pc, !.exit_code = 1]

\* sys.exit(code)
Exit(r, code) == [r EXCEPT !.pc = "exited", !.at = r.pc, !.exit_code = code]

\* main up to and including get_source_file_info: the unattended check, which
\* calls logger.verbose (logging.Logger has no such method), then the
\* inspection of the source file
EnterMain(p) ==
    LET r          == run[p]
        unattended == r.command.unattended_flag \/ ~r.command.isatty
    IN  /\ r.pc = "main"
        /\ run' = [run EXCEPT ![p] =
             IF unattended
             THEN Raise([r EXCEPT !.unattended = unattended], "AttributeError")
             ELSE IF r.command.source_kind = "absent"
             THEN Raise(r, "FileNotFoundError")
             ELSE IF r.command.source_kind = "dir"
             THEN Raise(r, "NotImplementedError")
             ELSE [r EXCEPT !.pc = "auth"]]
        /\ UNCHANGED <<remote, nextId, calls, root_folder_info>>

\* get_google_credentials, get_google_token, invoke_google_authentication and
\* the construction of the client
Authenticate(p) ==
    LET r == run[p]
    IN  /\ r.pc = "auth"
        /\ calls' = Append(calls, Call(p, "credentials", <<>>, <<>>,
                                       r.command.credentials # "missing", <<>>))
        /\ run' = [run EXCEPT ![p] =
             IF r.command.credentials = "missing" THEN Exit(r, 1)
             ELSE IF r.command.credentials = "login" /\ r.unattended THEN Exit(r, 2)
             ELSE [r EXCEPT !.pc = IF r.command.drive_name # MY_DRIVE
                                   THEN "drive" ELSE "start"]]
        /\ UNCHANGED <<remote, nextId, root_folder_info>>

\* the unattended argument get_drive_id runs with: main does not pass its own
\* unattended value, so the parameter keeps its default
get_drive_id_unattended(r) == FALSE

\* get_drive_id: look the named drive up; with several matches list them,
\* prompting once per listed drive, and index the list with the text typed
get_drive_id(p) ==
    LET r      == run[p]
        drives == r.command.drives
    IN  /\ r.pc = "drive"
        /\ calls' = Append(calls, Call(p, "list_drives", <<>>,
                                       escape_google_api_query_string(r.command.drive_name),
                                       TRUE, <<>>))
        /\ run' = [run EXCEPT ![p] =
             IF drives = <<>> THEN Exit(r, 1)
             ELSE IF Len(drives) > 1
             THEN IF get_drive_id_unattended(r) THEN Exit(r, 2)
                  \* index_to_use is the string typed last: indexing a list
                  \* with a string raises, and the bare except exits
                  ELSE Exit([r EXCEPT !.prompts = Len(drives)], 1)
             ELSE [r EXCEPT !.drive_id = drives[1], !.pc = "start"]]
        /\ UNCHANGED <<remote, nextId, root_folder_info>>

\* the drive lookup request fails: get_drive_id does not catch the HttpError
DriveLookupFails(p) ==
    LET r == run[p]
    IN  /\ r.pc = "drive"
        /\ calls' = Append(calls, Call(p, "list_drives", <<>>,
                                       escape_google_api_query_string(r.command.drive_name),
                                       FALSE, <<>>))
        /\ run' = [run EXCEPT ![p] = Raise(r, "HttpError")]
        /\ UNCHANGED <<remote, nextId, root_folder_info>>

\* a resolution that writes the container into the shared descriptor
root_info_overwritten(info, drive_id) == [info EXCEPT !.id = drive_id]

\* what get_destination_info leaves in the module-level ROOT_FOLDER_INFO
root_info_after(info, drive_id) == info

\* main calls get_destination_info, which splits the destination path
ResolvePath(p) ==
    LET r    == run[p]
        segs == parent_folders(r.destination_path)
        name == destination_file_name(r.source_file_path, r.destination_path)
    IN  /\ r.pc = "start"
        /\ run' = [run EXCEPT ![p] =
                     [r EXCEPT !.parent_folders = segs,
                               !.destination_file_name = name,
                               !.folders_present =
                                   IF segs = <<>> THEN local_root_folder_info(r.drive_id)
                                   ELSE <<>>,
                               !.pc = IF segs = <<>> THEN "collision" ELSE "walk"]]
        /\ root_folder_info' = root_info_after(root_folder_info, r.drive_id)
        /\ UNCHANGED <<remote, nextId, calls>>

\* the parent the lookup loop uses for the segment at (0-based) index
LookupParent(r, index) ==
    IF index = 0 THEN local_root_folder_info(r.drive_id)[1].id
    ELSE r.folders_present[index].id

\* the entry the loop keeps when the store returns several matches
first_found_last(found_folders) == found_folders[Len(found_folders)]

first_found(found_folders) == found_folders[1]

\* the segments that become folders_missing when the segment at index has no match
remaining_folders_skip(segs, index) == SubSeq(segs, index + 2, Len(segs))

remaining_folders(segs, index) == SubSeq(segs, index + 1, Len(segs))

\* one iteration of the lookup loop of get_destination_info
FindFolder(p) ==
    LET r            == run[p]
        index        == Len(r.folders_present)
        this_folder  == r.parent_folders[index + 1]
        parent       == LookupParent(r, index)
        literal      == escape_google_api_query_string(this_folder)
        found_folders == FoundFolders(remote, parent, literal)
    IN  /\ r.pc = "walk"
        /\ QueryLiteral(literal).ok
        /\ calls' = Append(calls, Call(p, "list_folders", parent, literal, TRUE, <<>>))
        /\ run' = [run EXCEPT ![p] =
             IF found_folders # <<>>
             THEN [r EXCEPT !.folders_present =
                               Append(@, [name |-> this_folder,
                                          id |-> first_found(found_folders).id,
                                          parent |-> parent,
                                          type |-> FOLDER_MIME_TYPE]),
                            !.pc = IF index + 1 = Len(r.parent_folders)
                                   THEN "collision" ELSE "walk"]
             ELSE [r EXCEPT !.folders_missing =
                               remaining_folders(r.parent_folders, index),
                            !.pc = "resolved"]]
        /\ UNCHANGED <<remote, nextId, root_folder_info>>

\* the collision query of get_destination_info and the renaming after it
CheckCollision(p) ==
    LET r              == run[p]
        parent         == r.folders_present[Len(r.folders_present)].id
        file_name_base == SplitExt(r.destination_file_name).root
        literal        == escape_google_api_query_string(file_name_base)
        found_files    == FoundFiles(remote, parent, literal)
    IN  /\ r.pc = "collision"
        /\ QueryLiteral(literal).ok
        /\ calls' = Append(calls, Call(p, "list_files", parent, literal, TRUE, <<>>))
        /\ run' = [run EXCEPT ![p] =
             IF RenameRaises(found_files, file_name_base)
             THEN Raise(r, "ValueError")
             ELSE [r EXCEPT !.destination_file_name =
                               final_file_name(found_files, r.destination_file_name),
                            !.pc = "resolved"]]
        /\ UNCHANGED <<remote, nextId, root_folder_info>>

\* a failed listing taken for an empty result
list_error_as_missing(r) ==
    IF r.pc = "walk"
    THEN [r EXCEPT !.folders_missing =
                      remaining_folders(r.parent_folders, Len(r.folders_present)),
                   !.pc = "resolved"]
    ELSE [r EXCEPT !.pc = "resolved"]

\* where a failed listing request leaves the run: nothing between
\* list_drive_files and the top of main catches the HttpError
list_error_outcome(r) == Raise(r, "HttpError")

\* a listing request fails (transport error, or a query the store rejects):
\* list_drive_files does not catch the HttpError
ListFails(p) ==
    LET r       == run[p]
        index   == Len(r.folders_present)
        parent  == IF r.pc = "walk" THEN LookupParent(r, index)
                   ELSE r.folders_present[Len(r.folders_present)].id
        literal == escape_google_api_query_string(
                       IF r.pc = "walk" THEN r.parent_folders[index + 1]
                       ELSE SplitExt(r.destination_file_name).root)
    IN  /\ r.pc \in {"walk", "collision"}
        /\ calls' = Append(calls, Call(p, IF r.pc = "walk" THEN "list_folders"
                                          ELSE "list_files",
                                       parent, literal, FALSE, <<>>))
        /\ run' = [run EXCEPT ![p] = list_error_outcome(r)]
        /\ UNCHANGED <<remote, nextId, root_folder_info>>

\* the folder main uploads into when nothing is missing
upload_parent_first(folders_present) == folders_present[1]

upload_parent(folders_present) == folders_present[Len(folders_present)]

\* the parent create_missing_drive_folders passes to its recursive call
next_parent_same(parent, folder_id) == parent

next_parent(parent, folder_id) == folder_id

\* main, after get_destination_info returned: pick the folder to create under
\* or to upload into
SelectParent(p) ==
    LET r == run[p]
    IN  /\ r.pc = "resolved"
        /\ run' = [run EXCEPT ![p] =
             IF r.folders_missing # <<>>
             THEN IF r.folders_present = <<>>
                  THEN Raise(r, "IndexError")
                  ELSE [r EXCEPT !.parent = r.folders_present[Len(r.folders_present)].id,
                                 !.pc = "create"]
             ELSE [r EXCEPT !.parent_folder = upload_parent(r.folders_present),
                            !.pc = "upload"]]
        /\ UNCHANGED <<remote, nextId, calls, root_folder_info>>

\* one level of create_missing_drive_folders: pop the first name and create it
CreateFolder(p) ==
    LET r           == run[p]
        folder_name == Head(r.folders_missing)
        folder_id   == NewId(nextId)
        sent_name   == escape_google_api_query_string(folder_name)
        rest        == Tail(r.folders_missing)
    IN  /\ r.pc = "create"
        /\ remote' = Append(remote, Entry(folder_id, sent_name, r.parent,
                                          FOLDER_MIME_TYPE, FALSE))
        /\ nextId' = nextId + 1
        /\ calls' = Append(calls, Call(p, "create_folder", r.parent, sent_name, TRUE, folder_id))
        /\ run' = [run EXCEPT ![p] =
             IF rest # <<>>
             THEN [r EXCEPT !.folders_missing = rest,
                            !.parent = next_parent(r.parent, folder_id)]
             ELSE [r EXCEPT !.folders_missing = rest,
                            !.parent_folder = [name |-> folder_name, id |-> folder_id,
                                               parent |-> r.parent,
                                               type |-> FOLDER_MIME_TYPE],
                            !.pc = "upload"]]
        /\ UNCHANGED root_folder_info

\* a failed creation that is logged and passed over
create_error_ignored(r) ==
    IF r.folders_missing # <<>> THEN r
    ELSE [r EXCEPT !.parent_folder = [name |-> <<>>, id |-> r.parent,
                                      parent |-> r.parent, type |-> FOLDER_MIME_TYPE],
                   !.pc = "upload"]

\* where a failed create request leaves the run (r has the name popped):
\* nothing between create_drive_folder and the top of main catches the HttpError
create_error_outcome(r) == Raise(r, "HttpError")

\* a create request fails: neither create_drive_folder nor its callers catch it
CreateFails(p) ==
    LET r == run[p]
    IN  /\ r.pc = "create"
        /\ calls' = Append(calls, Call(p, "create_folder", r.parent,
                                       escape_google_api_query_string(Head(r.folders_missing)),
                                       FALSE, <<>>))
        /\ run' = [run EXCEPT ![p] =
                     create_error_outcome([r EXCEPT !.folders_missing = Tail(@)])]
        /\ UNCHANGED <<remote, nextId, root_folder_info>>

\* upload_drive_file succeeds and main reports the new id
Upload(p) ==
    LET r       == run[p]
        file_id == NewId(nextId)
    IN  /\ r.pc = "upload"
        /\ remote' = Append(remote, Entry(file_id, r.destination_file_name,
                                          r.parent_folder.id, FILE_MIME_TYPE, FALSE))
        /\ nextId' = nextId + 1
        /\ calls' = Append(calls, Call(p, "upload", r.parent_folder.id,
                                       r.destination_file_name, TRUE, file_id))
        /\ run' = [run EXCEPT ![p] = [r EXCEPT !.result = file_id, !.pc = "done",
                                                !.exit_code = 0]]
        /\ UNCHANGED root_folder_info

\* the upload request fails: upload_drive_file logs the HttpError and then
\* reads result, which was never bound
UploadFails(p) ==
    LET r == run[p]
    IN  /\ r.pc = "upload"
        /\ calls' = Append(calls, Call(p, "upload", r.parent_folder.id,
                                       r.destination_file_name, FALSE, <<>>))
        /\ run' = [run EXCEPT ![p] = Raise(r, "UnboundLocalError")]
        /\ UNCHANGED <<remote, nextId, root_folder_info>>

Next ==
    \E p \in Runs :
        \/ EnterMain(p)
        \/ Authenticate(p)
        \/ get_drive_id(p)
        \/ DriveLookupFails(p)
        \/ ResolvePath(p)
        \/ FindFolder(p)
        \/ CheckCollision(p)
        \/ ListFails(p)
        \/ SelectParent(p)
        \/ CreateFolder(p)
        \/ CreateFails(p)
        \/ Upload(p)
        \/ UploadFails(p)

Spec == Init /\ [][Next]_vars

(***************************************************************************)
(* Observations used by the properties.                                    *)
(***************************************************************************)
\* the calls of kind op that run p has issued so far, in order
CallsOf(p, op) ==
    SelectEntries(calls, {i \in 1..Len(calls) : calls[i].proc = p /\ calls[i].op = op})

\* how many path segments run p has found present
SegsPresent(r) == IF r.parent_folders = <<>> THEN 0 ELSE Len(r.folders_present)

\* the lookup loop of run p has ended without a failed request
LoopDone(r) ==
    \/ r.pc \in {"collision", "resolved", "create", "upload", "done"}
    \/ r.pc = "crashed" /\ r.at \in {"collision", "resolved", "create", "upload"}

\* get_destination_info has returned to main
Returned(r) ==
    \/ r.pc \in {"resolved", "create", "upload", "done"}
    \/ r.pc = "crashed" /\ r.at \in {"resolved", "create", "upload"}

RootOf(r) == local_root_folder_info(r.drive_id)[1].id

\* C1: the folder lookups of get_destination_info are issued for the segments
\* in order, each under the id of the previous match (the root id for the
\* first); the first entry returned is the one kept; at the first segment
\* without a match that segment and all later ones become folders_missing and
\* no further lookup is issued, so the number of lookups is
\* len(folders_present) + 1 when something is missing and len(segments) otherwise.
C1_OrderedLookup ==
    \A p \in DOMAIN run :
        LET r       == run[p]
            lookups == CallsOf(p, "list_folders")
            k       == SegsPresent(r)
        IN  /\ \A i \in 1..Len(lookups) :
                  /\ i <= Len(r.parent_folders)
                  /\ lookups[i].name = escape_google_api_query_string(r.parent_folders[i])
                  /\ lookups[i].parent =
                        IF i = 1 THEN RootOf(r) ELSE r.folders_present[i - 1].id
            /\ \A i \in 1..k :
                  LET matches == FoundFolders(remote, lookups[i].parent, lookups[i].name)
                  IN  matches # <<>> /\ r.folders_present[i].id = matches[1].id
            /\ r.pc = "walk" => Len(lookups) = k
            /\ LoopDone(r) =>
                  Len(lookups) = IF k < Len(r.parent_folders)
                                 THEN k + 1 ELSE Len(r.parent_folders)
            /\ r.pc = "resolved" =>
                  /\ (r.folders_missing # <<>>) = (k < Len(r.parent_folders))
                  /\ r.folders_missing # <<>> =>
                        /\ r.folders_missing =
                              SubSeq(r.parent_folders, k + 1, Len(r.parent_folders))
                        /\ FoundFolders(remote, lookups[k + 1].parent,
                                        lookups[k + 1].name) = <<>>

\* C1 witness: a segment was found by taking the first of two matches, the
\* next one was absent, and two segments were left without a lookup of the last
C1_Witness ==
    \E p \in DOMAIN run :
        LET r == run[p]
        IN  /\ r.pc = "resolved"
            /\ Len(r.folders_present) = 1
            /\ Len(r.folders_missing) = 2
            /\ Len(CallsOf(p, "list_folders")) = 2
            /\ Len(FoundFolders(remote, RootOf(r), r.parent_folders[1])) = 2

\* C2: for a non-empty segment list, the names of folders_present followed by
\* folders_missing are the segment list, and each present folder's parent is
\* the id of the present folder before it (the root id for the first).
C2_PresentThenMissing ==
    \A p \in DOMAIN run :
        LET r == run[p]
        IN  (r.pc = "resolved" /\ r.parent_folders # <<>>) =>
               /\ [i \in 1..Len(r.folders_present) |-> r.folders_present[i].name]
                     \o r.folders_missing = r.parent_folders
               /\ \A i \in 1..Len(r.folders_present) :
                     r.folders_present[i].parent =
                        IF i = 1 THEN RootOf(r) ELSE r.folders_present[i - 1].id

\* C2 witness: a resolution that found two segments and misses one
C2_Witness ==
    \E p \in DOMAIN run :
        /\ run[p].pc = "resolved"
        /\ Len(run[p].folders_present) = 2
        /\ Len(run[p].folders_missing) = 1

\* C3: when the first segment does not exist under the root (nothing present,
\* something missing), main creates the missing folders starting under the
\* root id (the shared drive's id when one is named) and then uploads under
\* the deepest created folder.
C3_CreateUnderRoot ==
    \A p \in DOMAIN run :
        LET r       == run[p]
            creates == CallsOf(p, "create_folder")
            uploads == CallsOf(p, "upload")
        IN  (/\ Returned(r)
             /\ r.parent_folders # <<>>
             /\ r.parent_folders[1] # <<>>
             /\ SegsPresent(r) = 0) =>
               /\ ~(r.pc = "crashed" /\ r.at = "resolved")
               /\ creates # <<>> => creates[1].parent = RootOf(r)
               /\ r.pc = "done" =>
                     /\ creates # <<>>
                     /\ uploads[1].parent = creates[Len(creates)].id

\* the names create_missing_drive_folders was called with by run p
ToMake(r) == SubSeq(r.parent_folders, SegsPresent(r) + 1, Len(r.parent_folders))

\* C4: create_missing_drive_folders issues exactly one create call per missing
\* name, in root-to-leaf order, each under the id the previous creation
\* returned (the given parent for the first), and returns the descriptor of the
\* last name, whose id is the last created id and whose parent is the id the
\* last folder was created under.
C4_OrderedCreation ==
    \A p \in DOMAIN run :
        LET r       == run[p]
            creates == CallsOf(p, "create_folder")
            n       == Len(creates)
        IN  /\ n <= Len(ToMake(r))
            /\ \A i \in 1..n :
                  /\ creates[i].name = escape_google_api_query_string(ToMake(r)[i])
                  /\ creates[i].parent =
                        IF i = 1 THEN r.folders_present[Len(r.folders_present)].id
                        ELSE creates[i - 1].id
                  /\ i < n => creates[i].ok
            /\ r.pc = "create" =>
                  /\ n < Len(ToMake(r))
                  /\ r.folders_missing = SubSeq(ToMake(r), n + 1, Len(ToMake(r)))
            /\ (r.pc \in {"upload", "done"} /\ ToMake(r) # <<>>) =>
                  /\ n = Len(ToMake(r))
                  /\ creates[n].ok
                  /\ r.parent_folder.name = ToMake(r)[n]
                  /\ r.parent_folder.id = creates[n].id
                  /\ r.parent_folder.parent = creates[n].parent
                  /\ \E i \in 1..Len(remote) :
                        /\ remote[i].id = creates[n].id
                        /\ remote[i].parent = creates[n].parent
                        /\ remote[i].mimeType = FOLDER_MIME_TYPE

\* C4 witness: two folders were created, the second under the first, and the
\* descriptor of the second was returned
C4_Witness ==
    \E p \in DOMAIN run :
        LET creates == CallsOf(p, "create_folder")
        IN  /\ run[p].pc = "upload"
            /\ Len(creates) = 2
            /\ creates[2].parent = creates[1].id
            /\ run[p].parent_folder.id = creates[2].id

\* the remote store as it was before the runs added entries to it
InitialRemote == SubSeq(remote, 1, Len(remote) - (nextId - 1))

\* the file name resolution yields for run p on the initial remote
ResolvedName(r) ==
    LET leaf == destination_file_name(r.source_file_path, r.destination_path)
    IN  IF SegsPresent(r) < Len(r.parent_folders) THEN leaf
        ELSE final_file_name(
                 FoundFiles(InitialRemote, r.folders_present[Len(r.folders_present)].id,
                            escape_google_api_query_string(SplitExt(leaf).root)),
                 leaf)

\* C5: a successful run issues exactly one upload call, after every create
\* call of the run has returned; its parent is the deepest created folder when
\* a folder was missing and the last present folder otherwise, and its name is
\* the file name resolution produced.
C5_SingleUploadLast ==
    \A p \in DOMAIN run :
        LET r       == run[p]
            creates == CallsOf(p, "create_folder")
            uploads == CallsOf(p, "upload")
        IN  /\ r.pc \in {"start", "walk", "collision", "resolved", "create"} =>
                  uploads = <<>>
            /\ r.pc = "done" =>
                  /\ Len(uploads) = 1
                  /\ uploads[1].ok
                  /\ \A i, j \in 1..Len(calls) :
                        (calls[i].proc = p /\ calls[i].op = "create_folder"
                         /\ calls[j].proc = p /\ calls[j].op = "upload")
                           => (i < j /\ calls[i].ok)
                  /\ (creates # <<>>) = (SegsPresent(r) < Len(r.parent_folders))
                  /\ uploads[1].parent =
                        IF creates # <<>> THEN creates[Len(creates)].id
                        ELSE r.folders_present[Len(r.folders_present)].id
                  /\ uploads[1].name = ResolvedName(r)
                  /\ r.result = uploads[1].id

\* C5 witness: a successful run that created two folders and then uploaded
C5_Witness ==
    \E p \in DOMAIN run :
        /\ run[p].pc = "done"
        /\ Len(CallsOf(p, "create_folder")) = 2
        /\ Len(CallsOf(p, "upload")) = 1

\* C5 second case: a successful run that found every folder and uploaded
\* under a renamed file name
C5_NoCreateCase ==
    \E p \in DOMAIN run :
        /\ run[p].pc = "done"
        /\ CallsOf(p, "create_folder") = <<>>
        /\ Len(run[p].folders_present) = 2
        /\ run[p].destination_file_name
              # destination_file_name(run[p].source_file_path, run[p].destination_path)

(***************************************************************************)
(* Collision resolution as the specification describes it.                 *)
(***************************************************************************)
\* the leaf name run p resolves before any renaming
Leaf(r) == destination_file_name(r.source_file_path, r.destination_path)

\* base (n)extension for the leaf of run p
Numbered(r, n) ==
    SplitExt(Leaf(r)).root \o <<" ", "(">> \o ToStr(n) \o <<")">> \o SplitExt(Leaf(r)).ext

\* the collision query of run p has returned
CollisionChecked(p) ==
    \E i \in 1..Len(calls) :
        calls[i].proc = p /\ calls[i].op = "list_files" /\ calls[i].ok

\* what the collision query of run p returned
Matches(p) ==
    LET r == run[p]
    IN  FoundFiles(InitialRemote, r.folders_present[Len(r.folders_present)].id,
                   escape_google_api_query_string(SplitExt(Leaf(r)).root))

\* name, without its extension, is exactly base + " (" + decimal integer + ")"
ParsesAs(name, base) ==
    LET stem == SplitExt(name).root
    IN  /\ Len(stem) >= Len(base) + 4
        /\ SubSeq(stem, 1, Len(base)) = base
        /\ stem[Len(base) + 1] = " "
        /\ stem[Len(base) + 2] = "("
        /\ stem[Len(stem)] = ")"
        /\ IsDigit(SubSeq(stem, Len(base) + 3, Len(stem) - 1))

\* the integers of the matches that parse as base (N)
ParsedNumbers(p) ==
    LET base == SplitExt(Leaf(run[p])).root
        m    == Matches(p)
    IN  { ToInt(SubSeq(SplitExt(m[i].name).root, Len(base) + 3,
                       Len(SplitExt(m[i].name).root) - 1)) :
            i \in {j \in 1..Len(m) : ParsesAs(m[j].name, base)} }

\* the collision query of run p returned only the file named like the leaf
OnlyTheLeaf(p) ==
    /\ CollisionChecked(p)
    /\ Len(Matches(p)) = 1
    /\ Matches(p)[1].name = Leaf(run[p])

\* C6 as claimed: when the collision query returns only the un-numbered file
\* with the exact leaf name, the final name is base (2)extension.
C6_Original ==
    \A p \in DOMAIN run :
        (OnlyTheLeaf(p) /\ Returned(run[p])) =>
            run[p].destination_file_name = Numbered(run[p], 2)

\* C6 as amended: when the collision query returns only the un-numbered file
\* with the exact leaf name, the final name is base (1)extension.
C6_OnlyLeafGetsOne ==
    \A p \in DOMAIN run :
        OnlyTheLeaf(p) =>
            /\ ~(run[p].pc = "crashed" /\ run[p].at = "collision")
            /\ Returned(run[p]) => run[p].destination_file_name = Numbered(run[p], 1)

\* C6 witness: resolution returned after finding only the file named like the leaf
C6_Witness ==
    \E p \in DOMAIN run :
        /\ OnlyTheLeaf(p)
        /\ run[p].pc = "resolved"
        /\ run[p].destination_file_name = Numbered(run[p], 1)

\* C7: for every non-empty set of matches (a single match included) in which
\* at least one name parses as base (N), the final name is base (M+1)extension
\* with M the largest parsed integer.
C7_MaxPlusOne ==
    \A p \in DOMAIN run :
        (CollisionChecked(p) /\ Matches(p) # <<>> /\ ParsedNumbers(p) # {}) =>
            /\ ~(run[p].pc = "crashed" /\ run[p].at = "collision")
            /\ Returned(run[p]) =>
                  run[p].destination_file_name =
                     Numbered(run[p], (CHOOSE m \in ParsedNumbers(p) :
                                          \A n \in ParsedNumbers(p) : n <= m) + 1)

\* C8: for every non-empty set of matches, of any size, in which no name
\* parses as base (N), resolution completes normally and the final name is
\* base (1)extension.
C8_FallbackToOne ==
    \A p \in DOMAIN run :
        (CollisionChecked(p) /\ Matches(p) # <<>> /\ ParsedNumbers(p) = {}) =>
            /\ ~(run[p].pc = "crashed" /\ run[p].at = "collision")
            /\ Returned(run[p]) => run[p].destination_file_name = Numbered(run[p], 1)

\* C9: the leaf name is returned unchanged when folders are missing, and then
\* no collision query is issued at all; it is returned unchanged when all
\* folders are present and the collision query returns nothing; the collision
\* query is issued only when nothing is missing.
C9_LeafUnchanged ==
    \A p \in DOMAIN run :
        LET r == run[p]
        IN  /\ (r.pc = "resolved" /\ r.folders_missing # <<>>) =>
                  /\ r.destination_file_name = Leaf(r)
                  /\ CallsOf(p, "list_files") = <<>>
            /\ (r.pc = "resolved" /\ r.folders_missing = <<>>) =>
                  /\ CollisionChecked(p)
                  /\ Matches(p) = <<>> => r.destination_file_name = Leaf(r)
            /\ CallsOf(p, "list_files") # <<>> =>
                  /\ Len(CallsOf(p, "list_files")) = 1
                  /\ r.folders_missing = <<>>
                  /\ SegsPresent(r) = Len(r.parent_folders)
                  /\ CallsOf(p, "create_folder") = <<>>

\* C9 witness: all folders present, files in the folder but none matching,
\* the leaf returned as it was
C9_Witness ==
    \E p \in DOMAIN run :
        LET r == run[p]
        IN  /\ r.pc = "resolved"
            /\ r.parent_folders # <<>>
            /\ CollisionChecked(p)
            /\ Matches(p) = <<>>
            /\ \E i \in 1..Len(remote) :
                  /\ remote[i].parent = r.folders_present[Len(r.folders_present)].id
                  /\ remote[i].mimeType = FILE_MIME_TYPE
            /\ r.destination_file_name = Leaf(r)

\* C9 other case: folders missing, no collision query, the leaf as it was
C9_MissingCase ==
    \E p \in DOMAIN run :
        /\ run[p].pc = "resolved"
        /\ run[p].folders_missing # <<>>
        /\ run[p].folders_present # <<>>
        /\ CallsOf(p, "list_files") = <<>>

\* C10: with all folders present, the file name chosen for the upload differs
\* from the name of every child the collision query returned.
C10_NameIsFree ==
    \A p \in DOMAIN run :
        (CollisionChecked(p) /\ Returned(run[p])) =>
            \A i \in 1..Len(Matches(p)) :
                Matches(p)[i].name # run[p].destination_file_name

(***************************************************************************)
(* Path resolution on every short destination path.                        *)
(***************************************************************************)
PathAlphabet == {"/", ".", "A", "r"}

AllPaths == UNION { [1..n -> PathAlphabet] : n \in 0..MaxPathLen }

PathSources == { <<"s", "/", "q", ".", "p">>, <<"q">> }

InitPaths ==
    /\ root_folder_info = ROOT_FOLDER_INFO
    /\ nextId = 1
    /\ calls = <<>>
    /\ remote = <<>>
    /\ \E source_file_path \in PathSources, destination_path \in AllPaths,
          drive_id \in DriveIds :
          run = [p \in Runs |-> StartOfRun(drive_id, source_file_path, destination_path)]

NextPaths == \E p \in Runs : ResolvePath(p)

SpecPaths == InitPaths /\ [][NextPaths]_vars

\* the part of s after its last separator (all of s when it has none)
AfterLastSlash(s) ==
    CHOOSE t \in {SubSeq(s, i, Len(s)) : i \in 1..(Len(s) + 1)} :
        /\ \A j \in 1..Len(t) : t[j] # "/"
        /\ Len(t) = Len(s) \/ s[Len(s) - Len(t)] = "/"

\* get_destination_info has split the path of run p and not yet renamed the leaf
PathResolved(r) == r.pc \in {"walk", "collision"}

\* C11: if the destination path is "/", the segment list is empty and the
\* leaf is the source's base name; otherwise the leaf is the source's base
\* name when the path's trailing component is empty (the path ends in a
\* separator) and the trailing component otherwise.
C11_LeafRule ==
    \A p \in DOMAIN run :
        LET r == run[p]
        IN  PathResolved(r) =>
               IF r.destination_path = <<"/">>
               THEN /\ r.parent_folders = <<>>
                    /\ r.destination_file_name = AfterLastSlash(r.source_file_path)
               ELSE r.destination_file_name =
                       IF AfterLastSlash(r.destination_path) = <<>>
                       THEN AfterLastSlash(r.source_file_path)
                       ELSE AfterLastSlash(r.destination_path)

\* C11 witness: a path with folders that ends in a separator resolved to the
\* source's base name
C11_Witness ==
    \E p \in DOMAIN run :
        LET r == run[p]
        IN  /\ PathResolved(r)
            /\ Len(r.destination_path) > 1
            /\ r.destination_path[Len(r.destination_path)] = "/"
            /\ r.parent_folders # <<>>
            /\ r.destination_file_name = <<"q", ".", "p">>

\* C12: the segment list never starts with an empty or "." segment, so no
\* folder lookup and no folder creation is issued for an empty or "." name.
C12_NoRootAnchorSegment ==
    \A p \in DOMAIN run :
        /\ run[p].parent_folders # <<>> =>
              /\ run[p].parent_folders[1] # <<>>
              /\ run[p].parent_folders[1] # <<".">>
        /\ \A i \in 1..Len(calls) :
              (calls[i].proc = p /\ calls[i].op \in {"list_folders", "create_folder"}) =>
                  (calls[i].name # <<>> /\ calls[i].name # <<".">>)

\* every single quote of text is preceded by a backslash
QuotesEscaped(text) ==
    \A i \in 1..Len(text) : text[i] = "'" => (i > 1 /\ text[i - 1] = "\\")

\* C13: the text escape_google_api_query_string produces for the folder
\* lookup query, the collision query, the drive lookup query and the create
\* body has every single quote preceded by a backslash.
C13_QuotesEscaped ==
    \A i \in 1..Len(calls) :
        calls[i].op \in {"list_folders", "list_files", "list_drives", "create_folder"}
            => QuotesEscaped(calls[i].name)

\* run p has ended
Terminated(r) == r.pc \in {"done", "crashed", "exited"}

\* C14: when the upload call fails the run ends in a failed outcome that is
\* the upload error itself: no success report, no identifier reported, and no
\* secondary error raised while the failure is handled.
C14_UploadFailureSurfaces ==
    \A p \in DOMAIN run :
        (\E i \in 1..Len(calls) :
            calls[i].proc = p /\ calls[i].op = "upload" /\ ~calls[i].ok) =>
               /\ run[p].pc = "crashed"
               /\ run[p].result = <<>>
               /\ run[p].exit_code # 0
               /\ run[p].error = "HttpError"

\* the requests run p has issued, of any kind
AllCallsOf(p) == SelectEntries(calls, {i \in 1..Len(calls) : calls[i].proc = p})

\* C15: if the source path does not exist or is not a regular file, the run
\* aborts with a distinct error for each case before any credential loading,
\* authentication or remote call, and the remote store is unchanged.
C15_SourceCheckedFirst ==
    \A p \in DOMAIN run :
        LET r == run[p]
        IN  r.command.source_kind # "file" =>
               /\ r.pc \in {"main", "crashed"}
               /\ AllCallsOf(p) = <<>>
               /\ nextId = 1
               /\ r.pc = "crashed" =>
                     r.error = IF r.command.source_kind = "absent"
                               THEN "FileNotFoundError" ELSE "NotImplementedError"

\* C16: if the k-th create call of a run fails, the run aborts: no further
\* create call, no upload call and no delete call is issued, and the k - 1
\* folders already created remain on the remote store.
C16_CreateFailureAborts ==
    /\ \A i \in 1..Len(calls) :
          calls[i].op \in {"credentials", "list_drives", "list_folders",
                           "list_files", "create_folder", "upload"}
    /\ \A p \in DOMAIN run :
          \A i \in 1..Len(calls) :
             (calls[i].proc = p /\ calls[i].op = "create_folder" /\ ~calls[i].ok) =>
                 /\ run[p].pc = "crashed"
                 /\ run[p].at = "create"
                 /\ \A j \in (i + 1)..Len(calls) : calls[j].proc # p
                 /\ CallsOf(p, "upload") = <<>>
                 /\ \A j \in 1..(i - 1) :
                       (calls[j].proc = p /\ calls[j].op = "create_folder") =>
                           \E e \in 1..Len(remote) :
                               /\ remote[e].id = calls[j].id
                               /\ remote[e].mimeType = FOLDER_MIME_TYPE
                               /\ ~remote[e].trashed

\* C16 witness: the second create call of a run failed and the folder the
\* first one made is on the remote store
C16_Witness ==
    \E p \in DOMAIN run :
        LET creates == CallsOf(p, "create_folder")
        IN  /\ Len(creates) = 2
            /\ creates[1].ok
            /\ ~creates[2].ok
            /\ run[p].pc = "crashed"
            /\ \E e \in 1..Len(remote) : remote[e].id = creates[1].id

\* C17: a failed listing request is never taken for "no match": the run
\* aborts without marking any segment missing, and no create or upload call
\* follows the failed request.
C17_ListFailureAborts ==
    \A p \in DOMAIN run :
        \A i \in 1..Len(calls) :
           (calls[i].proc = p /\ calls[i].op \in {"list_folders", "list_files"}
            /\ ~calls[i].ok) =>
               /\ run[p].pc = "crashed"
               /\ run[p].error = "HttpError"
               /\ run[p].folders_missing = <<>>
               /\ \A j \in (i + 1)..Len(calls) : calls[j].proc # p
               /\ CallsOf(p, "create_folder") = <<>>
               /\ CallsOf(p, "upload") = <<>>

\* C17 witness: the lookup of the second segment failed after the first
\* segment was found
C17_Witness ==
    \E p \in DOMAIN run :
        LET lookups == CallsOf(p, "list_folders")
        IN  /\ Len(lookups) = 2
            /\ ~lookups[2].ok
            /\ Len(run[p].folders_present) = 1
            /\ run[p].pc = "crashed"

(***************************************************************************)
(* get_destination_info called twice by one caller, with the same          *)
(* arguments, while nobody else touches the remote store.                  *)
(***************************************************************************)
InitTwice ==
    /\ root_folder_info = ROOT_FOLDER_INFO
    /\ nextId = 1
    /\ calls = <<>>
    /\ \E source_file_path \in SourceFilePaths, destination_path \in DestinationPaths,
          drive_id \in DriveIds :
          /\ remote \in InitialRemotes(drive_id)
          /\ run = [p \in Runs |->
                      StartOfRun(drive_id, source_file_path, destination_path)]

\* the first call has returned: its result is kept and the function is
\* entered again with fresh locals
ResolveAgain(p) ==
    LET r == run[p]
    IN  /\ r.pc = "resolved"
        /\ ~r.first.called
        /\ run' = [run EXCEPT ![p] =
                     [r EXCEPT !.first = [called |-> TRUE,
                                          folders_present |-> r.folders_present,
                                          folders_missing |-> r.folders_missing,
                                          destination_file_name |->
                                              r.destination_file_name],
                               !.parent_folders = <<>>,
                               !.destination_file_name = <<>>,
                               !.folders_present = <<>>,
                               !.folders_missing = <<>>,
                               !.pc = "start"]]
        /\ UNCHANGED <<remote, nextId, calls, root_folder_info>>

NextTwice ==
    \E p \in Runs :
        \/ ResolvePath(p)
        \/ FindFolder(p)
        \/ CheckCollision(p)
        \/ ResolveAgain(p)

SpecTwice == InitTwice /\ [][NextTwice]_vars

\* C18: the second of two calls of get_destination_info with the same
\* arguments on an unchanged remote store returns the same present folders,
\* missing folders and final file name as the first, and the shared root
\* descriptor is as it was before the first call.
C18_SameResultTwice ==
    /\ root_folder_info = ROOT_FOLDER_INFO
    /\ \A p \in DOMAIN run :
          LET r == run[p]
          IN  (r.pc = "resolved" /\ r.first.called) =>
                 /\ r.folders_present = r.first.folders_present
                 /\ r.folders_missing = r.first.folders_missing
                 /\ r.destination_file_name = r.first.destination_file_name

\* C18 witness: on the user's own drive, where the shared root descriptor is
\* the starting point, the second call has returned after a lookup that found
\* one folder and missed the next
C18_Witness ==
    \E p \in DOMAIN run :
        LET r == run[p]
        IN  /\ r.pc = "resolved"
            /\ r.first.called
            /\ r.drive_id = NoDrive
            /\ Len(r.first.folders_present) = 1
            /\ r.first.folders_missing # <<>>

\* C18, second case reached: both calls renamed the leaf
C18_RenamedCase ==
    \E p \in DOMAIN run :
        LET r == run[p]
        IN  /\ r.pc = "resolved"
            /\ r.first.called
            /\ r.first.destination_file_name # Leaf(r)

(***************************************************************************)
(* Two invocations of the program at work on one destination at the same   *)
(* time.  Each is past its start-up; their remote calls interleave.        *)
(***************************************************************************)
Racers == {1, 2}

RaceDestinationPaths ==
    { <<"/">>,
      <<"/", "A", "/", "r", ".", "p">>,
      <<"/", "A", "/", "B", "/", "r", ".", "p">>,
      <<"/", "A", "/", "B", "/", "C", "/">> }

\* the folder trees, bare or with one file r.p in a target folder
RaceRemotes(drive_id) ==
    UNION { { t.tree \o FileEntries(idx, target) :
                idx \in {{}, {1}}, target \in t.targets } :
            t \in Trees(RootId(drive_id)) }

InitRace ==
    /\ root_folder_info = ROOT_FOLDER_INFO
    /\ nextId = 1
    /\ calls = <<>>
    /\ \E source_file_path \in SourceFilePaths,
          destination_path \in RaceDestinationPaths, drive_id \in DriveIds :
          /\ remote \in RaceRemotes(drive_id)
          /\ run = [p \in Racers |->
                      StartOfRun(drive_id, source_file_path, destination_path)]

NextRace ==
    \E p \in Racers :
        \/ ResolvePath(p)
        \/ FindFolder(p)
        \/ CheckCollision(p)
        \/ SelectParent(p)
        \/ CreateFolder(p)
        \/ Upload(p)

SpecRace == InitRace /\ [][NextRace]_vars

\* requests i and j are successful requests of kind op by different
\* invocations for the same name under the same parent
SameRequestTwice(op, i, j) ==
    /\ calls[i].op = op /\ calls[j].op = op
    /\ calls[i].ok /\ calls[j].ok
    /\ calls[i].proc # calls[j].proc
    /\ calls[i].parent = calls[j].parent
    /\ calls[i].name = calls[j].name

\* the remote store holds two live entries of this type, name and parent
TwoEntries(mimeType, name, parent) ==
    \E e, f \in 1..Len(remote) :
        /\ e # f
        /\ \A g \in {e, f} :
              /\ remote[g].mimeType = mimeType
              /\ remote[g].name = name
              /\ remote[g].parent = parent
              /\ ~remote[g].trashed

\* C19: nothing locks the remote store between a listing query and the
\* create or upload call that follows it.  When two invocations make a folder
\* of the same name under the same parent, or upload under the same file name
\* into the same folder, the later one issued no listing query for that name
\* after the earlier one's call: it had looked before, or it trusted an earlier
\* answer.  Both bad states are reached (C19_Witness and C19_SameFileName).
C19_OnlyThroughTheWindow ==
    \A i, j \in 1..Len(calls) :
        i < j =>
           /\ SameRequestTwice("create_folder", i, j) =>
                 ~ \E k \in (i + 1)..(j - 1) :
                     /\ calls[k].proc = calls[j].proc
                     /\ calls[k].op = "list_folders"
                     /\ calls[k].ok
                     /\ calls[k].parent = calls[j].parent
                     /\ calls[k].name = calls[j].name
           /\ SameRequestTwice("upload", i, j) =>
                 ~ \E k \in (i + 1)..(j - 1) :
                     /\ calls[k].proc = calls[j].proc
                     /\ calls[k].op = "list_files"
                     /\ calls[k].ok
                     /\ calls[k].parent = calls[j].parent

\* C19 witness, bad state (a): both invocations created a folder for the same
\* missing segment under the same parent
C19_Witness ==
    \E i, j \in 1..Len(calls) :
        /\ i < j
        /\ SameRequestTwice("create_folder", i, j)
        /\ TwoEntries(FOLDER_MIME_TYPE, calls[i].name, calls[i].parent)

\* C19, bad state (b): both invocations uploaded under the same final file
\* name into the same folder
C19_SameFileName ==
    \E i, j \in 1..Len(calls) :
        /\ i < j
        /\ SameRequestTwice("upload", i, j)
        /\ TwoEntries(FILE_MIME_TYPE, calls[i].name, calls[i].parent)
        /\ \A p \in Racers : run[p].pc = "done"

\* the command line of r asks for an unattended run that gets as far as
\* looking a shared drive up
UnattendedLookup(r) ==
    /\ r.command.unattended_flag \/ ~r.command.isatty
    /\ r.command.source_kind = "file"
    /\ r.command.credentials = "valid"
    /\ r.command.drive_name # MY_DRIVE

\* C20: an unattended run (flag set or no terminal) whose lookup of the named
\* drive has more than one match ends with exit code 2; one whose lookup has
\* no match ends with exit code 1.
C20_UnattendedExitCodes ==
    \A p \in DOMAIN run :
        LET r == run[p]
        IN  (UnattendedLookup(r) /\ Terminated(r)) =>
               /\ Len(r.command.drives) > 1 => r.exit_code = 2
               /\ Len(r.command.drives) = 0 => r.exit_code = 1

\* run p has had the answer of its drive lookup
DriveLookedUp(p) ==
    \E i \in 1..Len(calls) :
        calls[i].proc = p /\ calls[i].op = "list_drives" /\ calls[i].ok

\* the text typed names one of k listed options
ValidChoice(typed, k) == IsDigit(typed) /\ ToInt(typed) < k

\* C21: when the drive lookup of an interactive run returns k > 1 matches, the
\* user is prompted exactly once, after the k options were listed; an answer
\* naming an index in 0..k-1 selects that drive's id and the run continues;
\* any other answer is fatal.
C21_PromptOnceAndSelect ==
    \A p \in DOMAIN run :
        LET r == run[p]
            c == r.command
            k == Len(c.drives)
        IN  (k > 1 /\ c.isatty /\ ~c.unattended_flag /\ DriveLookedUp(p)) =>
               /\ r.prompts = 1
               /\ ValidChoice(c.typed, k) =>
                     /\ r.drive_id = c.drives[ToInt(c.typed) + 1]
                     /\ ~(r.pc = "exited" /\ r.at = "drive")
               /\ ~ValidChoice(c.typed, k) =>
                     /\ r.pc = "exited" /\ r.at = "drive" /\ r.exit_code # 0

\* C22: in the renaming, a found name adds an integer to numbers_list only if,
\* without its extension, it is exactly base + " (" + decimal integer + ")";
\* every other found name adds nothing.
C22_OnlyPatternCounts ==
    \A p \in DOMAIN run :
        (CollisionChecked(p) /\ Len(Matches(p)) > 1) =>
            LET base == SplitExt(Leaf(run[p])).root
                nums == numbers_list(Matches(p), base)
            IN  { nums[i] : i \in 1..Len(nums) } = ParsedNumbers(p)

\* the id the root descriptor of run r must carry
ExpectedRootId(r) ==
    IF r.drive_id # NoDrive THEN r.drive_id ELSE DRIVE_ROOT_FOLDER_NAME

\* C23: when the segment list is empty, folders_present is the root descriptor
\* alone, with the drive id of a named drive and "root" otherwise; no folder
\* lookup is issued, and the collision query and the upload have that id as
\* parent.
C23_RootDescriptorAlone ==
    \A p \in DOMAIN run :
        LET r == run[p]
        IN  (LoopDone(r) /\ r.parent_folders = <<>>) =>
               /\ r.folders_present =
                     <<[name |-> DRIVE_ROOT_FOLDER_NAME, id |-> ExpectedRootId(r),
                        parent |-> DRIVE_ROOT_FOLDER_NAME, type |-> FOLDER_MIME_TYPE]>>
               /\ r.folders_missing = <<>>
               /\ CallsOf(p, "list_folders") = <<>>
               /\ CallsOf(p, "create_folder") = <<>>
               /\ \A i \in 1..Len(calls) :
                     (calls[i].proc = p /\ calls[i].op \in {"list_files", "upload"}) =>
                         calls[i].parent = ExpectedRootId(r)
               /\ r.pc = "done" =>
                     /\ Len(CallsOf(p, "list_files")) = 1
                     /\ Len(CallsOf(p, "upload")) = 1

\* C23 witness: a run on a named drive with a bare file name as destination
\* has uploaded into the drive's root
C23_Witness ==
    \E p \in DOMAIN run :
        LET r == run[p]
        IN  /\ r.pc = "done"
            /\ r.drive_id # NoDrive
            /\ r.destination_path = <<"r", ".", "p">>
            /\ r.parent_folders = <<>>
            /\ CallsOf(p, "upload")[1].parent = r.drive_id

\* C23, second case reached: the same on the user's own drive, destination "/"
C23_OwnDriveCase ==
    \E p \in DOMAIN run :
        LET r == run[p]
        IN  /\ r.pc = "done"
            /\ r.drive_id = NoDrive
            /\ r.destination_path = <<"/">>
            /\ CallsOf(p, "upload")[1].parent = DRIVE_ROOT_FOLDER_NAME

\* C26: entering unattended mode does not by itself end the run: main goes on
\* from the announcement to the inspection of the source file, so a run that
\* ends before authentication ends with one of the two source-file errors.
C26_UnattendedProceeds ==
    \A p \in DOMAIN run :
        LET r == run[p]
        IN  ((r.command.unattended_flag \/ ~r.command.isatty)
             /\ r.pc = "crashed" /\ r.at = "main") =>
                r.error \in {"FileNotFoundError", "NotImplementedError"}

(***************************************************************************)
(* list_drive_files on a store that answers one listing in pages.  remote  *)
(* is the full answer in listing order; pages gives the number of files    *)
(* the store puts on each page.                                            *)
(***************************************************************************)
\* page_token = None
NoToken == <<>>

PageShapes == UNION { [1..n -> 0..MaxPageSize] : n \in 1..MaxPages }

RECURSIVE SumTo(_, _)
SumTo(pages, n) == IF n = 0 THEN 0 ELSE SumTo(pages, n - 1) + pages[n]

\* the response of files().list() to a request that passes page_token
Response(rem, pages, page_token) ==
    LET i == IF page_token = NoToken THEN 1 ELSE ToInt(page_token) + 1
    IN  [files |-> SubSeq(rem, SumTo(pages, i - 1) + 1, SumTo(pages, i)),
         nextPageToken |-> IF i < Len(pages) THEN ToStr(i) ELSE NoToken]

\* the locals of one call of list_drive_files when the loop is entered
StartOfListing(pages) ==
    [pc |-> "list", error |-> "", at |-> "", exit_code |-> -1,
     page_token |-> NoToken, files |-> <<>>, pages |-> pages]

InitPages ==
    /\ root_folder_info = ROOT_FOLDER_INFO
    /\ nextId = 1
    /\ calls = <<>>
    /\ \E pages \in PageShapes :
          /\ remote = [i \in 1..SumTo(pages, Len(pages)) |->
                          Entry(<<"x">> \o ToStr(i), <<"r", ".", "p">>,
                                DRIVE_ROOT_FOLDER_NAME, FILE_MIME_TYPE, FALSE)]
          /\ run = [p \in Runs |-> StartOfListing(pages)]

\* a list that keeps only the page just received
extend_replacing(files, more) == more

\* files.extend(response.get("files", []))
extend(files, more) == files \o more

\* one turn of the while loop: request a page, add its files, keep its token
RequestPage(p) ==
    LET r        == run[p]
        response == Response(remote, r.pages, r.page_token)
    IN  /\ r.pc = "list"
        /\ calls' = Append(calls, Call(p, "list_files", DRIVE_ROOT_FOLDER_NAME,
                                       r.page_token, TRUE, <<>>))
        /\ run' = [run EXCEPT ![p] =
                     [r EXCEPT !.files = extend(r.files, response.files),
                               !.page_token = response.nextPageToken,
                               !.pc = IF response.nextPageToken = NoToken
                                      THEN "returned" ELSE "list"]]
        /\ UNCHANGED <<remote, nextId, root_folder_info>>

\* a page request fails: the HttpError leaves list_drive_files
PageFails(p) ==
    LET r == run[p]
    IN  /\ r.pc = "list"
        /\ calls' = Append(calls, Call(p, "list_files", DRIVE_ROOT_FOLDER_NAME,
                                       r.page_token, FALSE, <<>>))
        /\ run' = [run EXCEPT ![p] = list_error_outcome(r)]
        /\ UNCHANGED <<remote, nextId, root_folder_info>>

NextPages ==
    \E p \in Runs :
        \/ RequestPage(p)
        \/ PageFails(p)

\* the loop is sequential code: it keeps running until it returns or raises
SpecPages == InitPages /\ [][NextPages]_vars /\ WF_vars(NextPages)

\* the token the store sent with its answer to request i of a listing
TokenAfter(r, reqs, i) == Response(remote, r.pages, reqs[i].name).nextPageToken

\* the page requests of every listing so far: the first passes no token, each
\* later one passes the token of the response before it, and a request is made
\* only after a response that carried a token; the listing has returned exactly
\* if the last response carried none, and then it returned all files of all
\* pages in order
C24_Listing ==
    \A p \in DOMAIN run :
        LET r    == run[p]
            reqs == AllCallsOf(p)
            n    == Len(reqs)
        IN  /\ \A i \in 1..n :
                  /\ reqs[i].name = IF i = 1 THEN NoToken ELSE TokenAfter(r, reqs, i - 1)
                  /\ i < n => reqs[i].ok /\ TokenAfter(r, reqs, i) # NoToken
            /\ r.pc = "returned" <=>
                  (n > 0 /\ reqs[n].ok /\ TokenAfter(r, reqs, n) = NoToken)
            /\ r.pc = "returned" => r.files = remote /\ n = Len(r.pages)
            /\ r.pc = "crashed" <=> (n > 0 /\ ~reqs[n].ok)
            /\ r.pc = "list" => r.files = SubSeq(remote, 1, SumTo(r.pages, n))

\* C24: list_drive_files keeps requesting pages, passing each response's
\* nextPageToken to the next request, and returns the files of every page in
\* order; it ends exactly when a response carries no nextPageToken, so on a
\* store that has a last page it always ends, and it never returns a partial
\* listing.
C24_Paginates == []C24_Listing /\ <>(\A p \in Runs : run[p].pc # "list")

\* C24 witness: a listing of three pages, the middle one empty, has returned
\* with the files of the first and the last page
C24_Witness ==
    \E p \in DOMAIN run :
        LET r == run[p]
        IN  /\ r.pc = "returned"
            /\ Len(r.pages) = 3
            /\ r.pages[1] > 0 /\ r.pages[2] = 0 /\ r.pages[3] > 0
            /\ Len(r.files) = r.pages[1] + r.pages[3]
            /\ Len(AllCallsOf(p)) = 3

(***************************************************************************)
(* One invocation runs to its end, and then the same command is run again  *)
(* while nobody else touches the remote store.                             *)
(***************************************************************************)
AgainDestinationPaths ==
    { <<"/", "A", "/", "B", "/", "r", ".", "p">>,
      <<"/", "A", "/", "B", "/", "C", "/">>,
      <<"/", "A", "/", "B", "\\", "/", "r", ".", "p">>,
      <<"/", "A", "/", "\\", "B", "/", "C", "/", "r", ".", "p">> }

InitAgain ==
    /\ root_folder_info = ROOT_FOLDER_INFO
    /\ nextId = 1
    /\ calls = <<>>
    /\ \E source_file_path \in SourceFilePaths,
          destination_path \in AgainDestinationPaths, drive_id \in DriveIds :
          /\ remote \in RaceRemotes(drive_id)
          /\ run = [p \in Runs |->
                      StartOfRun(drive_id, source_file_path, destination_path)]

\* the first invocation has reported its upload; the second one starts with
\* fresh locals on the store the first one left
RunAgain(p) ==
    LET r == run[p]
    IN  /\ r.pc = "done"
        /\ ~r.first.called
        /\ run' = [run EXCEPT ![p] =
                     [StartOfRun(r.drive_id, r.source_file_path, r.destination_path)
                        EXCEPT !.first = [called |-> TRUE,
                                          folders_present |-> r.folders_present,
                                          folders_missing |-> r.folders_missing,
                                          destination_file_name |->
                                              r.destination_file_name]]]
        /\ UNCHANGED <<remote, nextId, calls, root_folder_info>>

NextAgain ==
    \E p \in Runs :
        \/ ResolvePath(p)
        \/ FindFolder(p)
        \/ CheckCollision(p)
        \/ SelectParent(p)
        \/ CreateFolder(p)
        \/ Upload(p)
        \/ RunAgain(p)

SpecAgain == InitAgain /\ [][NextAgain]_vars

\* the second invocation of run p is at the return of get_destination_info,
\* after a first one that created folders
ResolvedAfterCreating(p) ==
    /\ run[p].first.called
    /\ run[p].pc = "resolved"
    /\ \A i \in 1..Len(calls) : calls[i].proc = p => calls[i].ok
    /\ \E i \in 1..Len(calls) :
          /\ calls[i].proc = p /\ calls[i].op = "create_folder"
          /\ \E j \in (i + 1)..Len(calls) : calls[j].proc = p /\ calls[j].op = "upload"

\* C25: the name sent in the body of a create request is the name the folder
\* lookup matches for that segment: after a run that created missing folders
\* has completed, resolving the same destination path again finds every
\* segment present and nothing missing, whatever the segment names.
C25_CreatedFoldersAreFound ==
    \A p \in DOMAIN run :
        ResolvedAfterCreating(p) =>
            /\ run[p].folders_missing = <<>>
            /\ Len(run[p].folders_present) = Len(run[p].parent_folders)

\* C25, the plain case: with segment names free of backslashes and quotes the
\* second resolution finds what the first run made
C25_PlainNames ==
    \A p \in DOMAIN run :
        (ResolvedAfterCreating(p)
         /\ \A i \in 1..Len(run[p].destination_path) :
               run[p].destination_path[i] \notin {"\\", "'"}) =>
            /\ run[p].folders_missing = <<>>
            /\ Len(run[p].folders_present) = Len(run[p].parent_folders)

====
